---------------------------- MODULE Spec2Model ----------------------------
(***************************************************************************)
(* Model of Chapter03/notebook.ipynb: the generate() routine that derives  *)
(* the primer and generation time windows from the tempo and the primer    *)
(* length, calls the sequence generator once and writes a MIDI file and a  *)
(* plot file named after the generator and the wall-clock second.          *)
(*                                                                         *)
(* Times are Python floats.  They are modelled as IEEE-754 binary64        *)
(* values, round-to-nearest-even, with the significand held as a sequence  *)
(* of base-2^15 limbs (least significant first).  The values the routine   *)
(* handles are far from the overflow and subnormal ranges, which are       *)
(* therefore not modelled.                                                 *)
(***************************************************************************)
EXTENDS Integers, Sequences, FiniteSets, TLC

(***************************************************************************)
(* Natural numbers of arbitrary size: sequences of limbs, least            *)
(* significant first, without leading zero limbs; <<>> is zero.            *)
(***************************************************************************)
LimbBits == 15

Base == 2^LimbBits

Precision == 53

Pow2(k) == 2^k

RECURSIVE Norm(_)
Norm(a) ==
    IF a = <<>> THEN a
    ELSE IF a[Len(a)] = 0 THEN Norm(SubSeq(a, 1, Len(a) - 1)) ELSE a

RECURSIVE Zeros(_)
Zeros(n) == IF n <= 0 THEN <<>> ELSE <<0>> \o Zeros(n - 1)

RECURSIVE FromNat(_)
FromNat(n) == IF n = 0 THEN <<>> ELSE <<n % Base>> \o FromNat(n \div Base)

RECURSIVE ToNat(_)
ToNat(a) == IF a = <<>> THEN 0 ELSE Head(a) + Base * ToNat(Tail(a))

RECURSIVE AddC(_, _, _)
AddC(a, b, c) ==
    IF a = <<>> /\ b = <<>> THEN (IF c = 0 THEN <<>> ELSE <<c>>)
    ELSE LET x == IF a = <<>> THEN 0 ELSE Head(a)
             y == IF b = <<>> THEN 0 ELSE Head(b)
             t == x + y + c
         IN  <<t % Base>> \o AddC(IF a = <<>> THEN a ELSE Tail(a),
                                  IF b = <<>> THEN b ELSE Tail(b),
                                  t \div Base)

BAdd(a, b) == AddC(a, b, 0)

RECURSIVE SubB(_, _, _)
SubB(a, b, w) ==
    IF a = <<>> THEN <<>>
    ELSE LET y == IF b = <<>> THEN 0 ELSE Head(b)
             t == Head(a) - y - w
         IN  <<t % Base>> \o SubB(Tail(a),
                                  IF b = <<>> THEN b ELSE Tail(b),
                                  IF t < 0 THEN 1 ELSE 0)

\* a - b for a >= b
BSub(a, b) == Norm(SubB(a, b, 0))

RECURSIVE CmpFrom(_, _, _)
CmpFrom(a, b, i) ==
    IF i = 0 THEN 0
    ELSE IF a[i] < b[i] THEN -1
    ELSE IF a[i] > b[i] THEN 1
    ELSE CmpFrom(a, b, i - 1)

\* -1, 0, 1 as a < b, a = b, a > b
BCmp(a, b) ==
    IF Len(a) < Len(b) THEN -1
    ELSE IF Len(a) > Len(b) THEN 1
    ELSE CmpFrom(a, b, Len(a))

RECURSIVE MulC(_, _, _)
MulC(a, k, c) ==
    IF a = <<>> THEN (IF c = 0 THEN <<>> ELSE <<c>>)
    ELSE LET t == Head(a) * k + c
         IN  <<t % Base>> \o MulC(Tail(a), k, t \div Base)

\* a * k for 0 <= k <= Base
BMulSmall(a, k) == Norm(MulC(a, k, 0))

RECURSIVE BMul(_, _)
BMul(a, b) ==
    IF a = <<>> \/ b = <<>> THEN <<>>
    ELSE BAdd(BMulSmall(a, Head(b)), Norm(<<0>> \o BMul(a, Tail(b))))

RECURSIVE BitLenSmall(_)
BitLenSmall(x) == IF x = 0 THEN 0 ELSE 1 + BitLenSmall(x \div 2)

BitLen(a) ==
    IF a = <<>> THEN 0
    ELSE LimbBits * (Len(a) - 1) + BitLenSmall(a[Len(a)])

Bit(a, i) ==
    LET j == (i \div LimbBits) + 1
    IN  IF j > Len(a) THEN 0 ELSE (a[j] \div Pow2(i % LimbBits)) % 2

ShiftLeft(a, k) ==
    IF a = <<>> THEN <<>>
    ELSE Zeros(k \div LimbBits) \o BMulSmall(a, Pow2(k % LimbBits))

RECURSIVE DivSmallFrom(_, _, _, _)
DivSmallFrom(a, d, i, r) ==
    IF i = 0 THEN <<>>
    ELSE LET t == r * Base + a[i]
         IN  DivSmallFrom(a, d, i - 1, t % d) \o <<t \div d>>

\* floor(a / d) for 1 <= d <= Base
BDivSmall(a, d) == Norm(DivSmallFrom(a, d, Len(a), 0))

\* floor(a / 2^k)
ShiftRight(a, k) ==
    IF k \div LimbBits >= Len(a) THEN <<>>
    ELSE BDivSmall(SubSeq(a, (k \div LimbBits) + 1, Len(a)), Pow2(k % LimbBits))

\* a mod 2^k
LowBits(a, k) == BSub(a, ShiftLeft(ShiftRight(a, k), k))

\* The largest k in lo..hi with d * k <= r, given d * lo <= r (bisection).
RECURSIVE FindDigit(_, _, _, _)
FindDigit(r, d, lo, hi) ==
    IF lo = hi THEN lo
    ELSE LET mid == (lo + hi + 1) \div 2
         IN  IF BCmp(BMulSmall(d, mid), r) <= 0
             THEN FindDigit(r, d, mid, hi)
             ELSE FindDigit(r, d, lo, mid - 1)

\* Long division in base 2^15: n further quotient limbs of r / d for r < d,
\* least significant first, and the remainder left after them.
RECURSIVE LongDiv(_, _, _)
LongDiv(r, d, n) ==
    IF n = 0 THEN [q |-> <<>>, r |-> r]
    ELSE LET r1   == ShiftLeft(r, LimbBits)
             dig  == FindDigit(r1, d, 0, Base - 1)
             rest == LongDiv(BSub(r1, BMulSmall(d, dig)), d, n - 1)
         IN  [q |-> rest.q \o <<dig>>, r |-> rest.r]

\* floor(a * Base^n / d) and whether the division left a remainder,
\* for a < 2 * d
BDivScaled(a, d, n) ==
    LET q0   == IF BCmp(a, d) >= 0 THEN 1 ELSE 0
        rest == LongDiv(IF q0 = 1 THEN BSub(a, d) ELSE a, d, n)
    IN  [q |-> Norm(rest.q \o <<q0>>), inexact |-> rest.r # <<>>]

(***************************************************************************)
(* binary64: [s, m, e] is (-1)^s * m * 2^e.  A nonzero value has a         *)
(* significand of exactly Precision bits, so equal values are equal        *)
(* records; zero is FZero.                                                 *)
(***************************************************************************)
FZero == [s |-> 0, m |-> <<>>, e |-> 0]

\* The binary64 nearest to (-1)^s * (mm * 2^ee + a positive amount below one
\* unit of mm when sticky), ties to even.
RoundPack(s, mm, ee, sticky) ==
    LET len == BitLen(mm)
    IN  IF mm = <<>> THEN FZero
        ELSE IF len <= Precision
        THEN [s |-> s, m |-> ShiftLeft(mm, Precision - len),
              e |-> ee - (Precision - len)]
        ELSE LET k    == len - Precision
                 q    == ShiftRight(mm, k)
                 rem  == LowBits(mm, k)
                 half == ShiftLeft(<<1>>, k - 1)
                 c    == BCmp(rem, half)
                 up   == c > 0 \/ (c = 0 /\ (sticky \/ Bit(q, 0) = 1))
                 q2   == IF up THEN BAdd(q, <<1>>) ELSE q
             IN  IF BitLen(q2) > Precision
                 THEN [s |-> s, m |-> ShiftRight(q2, 1), e |-> ee + k + 1]
                 ELSE [s |-> s, m |-> q2, e |-> ee + k]

\* float(n) for an integer n
FromInt(n) ==
    IF n < 0 THEN RoundPack(1, FromNat(-n), 0, FALSE)
    ELSE RoundPack(0, FromNat(n), 0, FALSE)

FNeg(x) == IF x.m = <<>> THEN x ELSE [x EXCEPT !.s = 1 - x.s]

\* x + y
FAdd(x, y) ==
    IF x.m = <<>> THEN y
    ELSE IF y.m = <<>> THEN x
    ELSE LET e0 == IF x.e < y.e THEN x.e ELSE y.e
             a  == ShiftLeft(x.m, x.e - e0)
             b  == ShiftLeft(y.m, y.e - e0)
             c  == BCmp(a, b)
         IN  IF x.s = y.s THEN RoundPack(x.s, BAdd(a, b), e0, FALSE)
             ELSE IF c = 0 THEN FZero
             ELSE IF c > 0 THEN RoundPack(x.s, BSub(a, b), e0, FALSE)
             ELSE RoundPack(y.s, BSub(b, a), e0, FALSE)

\* x - y
FSub(x, y) == FAdd(x, FNeg(y))

\* x * y
FMul(x, y) ==
    IF x.m = <<>> \/ y.m = <<>> THEN FZero
    ELSE RoundPack((x.s + y.s) % 2, BMul(x.m, y.m), x.e + y.e, FALSE)

\* x / y for y # 0
QuotLimbs == 4

FDiv(x, y) ==
    IF x.m = <<>> THEN FZero
    ELSE LET d == BDivScaled(x.m, y.m, QuotLimbs)
         IN  RoundPack((x.s + y.s) % 2, d.q, x.e - y.e - QuotLimbs * LimbBits,
                       d.inexact)

\* x < y
FLess(x, y) == LET d == FSub(x, y) IN d.m # <<>> /\ d.s = 1

\* x <= y
FLeq(x, y) == ~FLess(y, x)

\* math.ceil(x), for |x| < 2^31
Ceil(x) ==
    IF x.m = <<>> THEN 0
    ELSE LET ip   == IF x.e >= 0 THEN ShiftLeft(x.m, x.e)
                     ELSE ShiftRight(x.m, -x.e)
             frac == x.e < 0 /\ LowBits(x.m, -x.e) # <<>>
         IN  IF x.s = 0 THEN ToNat(ip) + (IF frac THEN 1 ELSE 0)
             ELSE -ToNat(ip)

(***************************************************************************)
(* The inputs of generate().                                               *)
(***************************************************************************)
\* How many calls of generate() a behaviour makes.
MaxInvocations == 2

\* The wall clock runs over the seconds 0..MaxClock.
MaxClock == 1

\* generator_id: keys of sequence_generator.get_generator_map().
GeneratorIds == {"basic_rnn", "attention_rnn"}

\* The value of the generator's steps_per_quarter attribute; NoAttr when the
\* generator has no such attribute.
NoAttr == 0

StepsPerQuarterAttrs == {NoAttr, 2}

\* qpm arguments; DEFAULT_QUARTERS_PER_MINUTE is 120.
QpmArgs == {120, 60}

\* total_length_steps arguments.
TotalLengthSteps == {9, 32}

\* NoteSequence(): no tempo, no notes.
EmptySequence == [tempos |-> <<>>, total_time |-> <<0, 1>>]

\* What midi_file_to_note_sequence can return for a primer file.  tempos are
\* the declared qpm values; total_time is the end of the last note in
\* seconds, as <<numerator, denominator>> of the decimal that is read.
PrimerFiles ==
    { [tempos |-> <<120>>,     total_time |-> <<15, 10>>],
      [tempos |-> <<82>>,      total_time |-> <<16, 10>>],
      [tempos |-> <<100>>,     total_time |-> <<9, 10>>],
      [tempos |-> <<120, 90>>, total_time |-> <<15, 10>>],
      [tempos |-> <<>>,        total_time |-> <<15, 10>>],
      [tempos |-> <<3000000>>, total_time |-> <<1, 1000000>> ] }

\* The float a decimal num/den reads as.
TimeOf(t) == FDiv(FromInt(t[1]), FromInt(t[2]))

(***************************************************************************)
(* The computations of generate(), in the order of the code.               *)
(***************************************************************************)
\* Mutant of ResolveQpm: the primer's tempo is never looked at.
ResolveQpmArgument(sequence, qpm) == qpm

\* if primer_sequence.tempos: ... qpm = primer_sequence.tempos[0].qpm
ResolveQpm(sequence, qpm) ==
    IF Len(sequence.tempos) > 0 THEN sequence.tempos[1] ELSE qpm

\* getattr(generator, "steps_per_quarter", 4)
StepsPerQuarter(attr) == IF attr = NoAttr THEN 4 ELSE attr

\* 60.0 / qpm / getattr(generator, "steps_per_quarter", 4)
SecondsPerStep(qpm, steps_per_quarter) ==
    FDiv(FDiv(FromInt(60), FromInt(qpm)), FromInt(steps_per_quarter))

\* math.ceil(primer_sequence.total_time / seconds_per_step)
PrimerSequenceLengthSteps(total_time, seconds_per_step) ==
    Ceil(FDiv(TimeOf(total_time), seconds_per_step))

\* primer_sequence_length_steps * seconds_per_step
PrimerSequenceLengthTime(primer_steps, seconds_per_step) ==
    FMul(FromInt(primer_steps), seconds_per_step)

\* The literal 0.00001
EndAdjust == FDiv(FromInt(1), FromInt(100000))

\* Mutant of PrimerEndAdjust: the adjustment is applied to every primer.
PrimerEndAdjustAlways(length_time) == EndAdjust

\* 0.00001 if primer_sequence_length_time > 0 else 0
PrimerEndAdjust(length_time) ==
    IF FLess(FZero, length_time) THEN EndAdjust ELSE FZero

\* primer_start_time + primer_sequence_length_time - primer_end_adjust
PrimerEndTime(start_time, length_time, adjust) ==
    FSub(FAdd(start_time, length_time), adjust)

\* total_length_steps - primer_sequence_length_steps
GenerationLengthSteps(total_length_steps, primer_steps) ==
    total_length_steps - primer_steps

\* Mutant of LengthTooSmall: the equal case passes the check.
LengthNegative(generation_length_steps) == generation_length_steps < 0

\* if generation_length_steps <= 0: raise
LengthTooSmall(generation_length_steps) == generation_length_steps <= 0

\* The exception's message: the text and the two numbers it prints.
LengthMessage(total_length_steps, primer_steps) ==
    [text |-> "Total length in steps too small", total |-> total_length_steps,
     primer |-> primer_steps]

\* generation_length_steps * seconds_per_step
GenerationLengthTime(generation_steps, seconds_per_step) ==
    FMul(FromInt(generation_steps), seconds_per_step)

\* generation_start_time + generation_length_time + primer_end_adjust
GenerationEndTime(start_time, length_time, adjust) ==
    FAdd(FAdd(start_time, length_time), adjust)

(***************************************************************************)
(* The locals of lines 142-181 for every input the model draws: one row    *)
(* per input, each line adding the local it assigns, computed from the     *)
(* row's inputs and the locals before it.  The float arithmetic is costly  *)
(* to evaluate, so it is evaluated once, in Init, into the variable        *)
(* windows, which never changes; the actions read the row of their call.   *)
(***************************************************************************)
WindowInputs ==
    { [qpm |-> ResolveQpm(p, qpm),
       steps_per_quarter |-> StepsPerQuarter(attr),
       total_time |-> p.total_time,
       total_length_steps |-> total] :
      p \in { f \in PrimerFiles \cup {EmptySequence} : Len(f.tempos) <= 1 },
      qpm \in QpmArgs, attr \in StepsPerQuarterAttrs,
      total \in TotalLengthSteps }

Line142(rows) ==
    { r @@ [seconds_per_step |->
                SecondsPerStep(r.qpm, r.steps_per_quarter)] : r \in rows }

Line147(rows) ==
    { r @@ [primer_sequence_length_steps |->
                PrimerSequenceLengthSteps(r.total_time, r.seconds_per_step)] :
      r \in rows }

Line150(rows) ==
    { r @@ [primer_sequence_length_time |->
                PrimerSequenceLengthTime(r.primer_sequence_length_steps,
                                         r.seconds_per_step)] : r \in rows }

Line157(rows) ==
    { r @@ [primer_end_adjust |->
                PrimerEndAdjust(r.primer_sequence_length_time),
            primer_start_time |-> FZero] : r \in rows }

Line161(rows) ==
    { r @@ [primer_end_time |->
                PrimerEndTime(r.primer_start_time,
                              r.primer_sequence_length_time,
                              r.primer_end_adjust)] : r \in rows }

Line166(rows) ==
    { r @@ [generation_length_steps |->
                GenerationLengthSteps(r.total_length_steps,
                                      r.primer_sequence_length_steps)] :
      r \in rows }

Line172(rows) ==
    { r @@ [generation_length_time |->
                GenerationLengthTime(r.generation_length_steps,
                                     r.seconds_per_step)] : r \in rows }

Line178(rows) ==
    { r @@ [generation_start_time |-> r.primer_end_time] : r \in rows }

Line181(rows) ==
    { r @@ [generation_end_time |->
                GenerationEndTime(r.generation_start_time,
                                  r.generation_length_time,
                                  r.primer_end_adjust)] : r \in rows }

WindowsOf(inputs) ==
    Line181(Line178(Line172(Line166(Line161(Line157(Line150(Line147(
        Line142(inputs)))))))))

\* The row of the inputs.
WindowOf(rows, qpm, steps_per_quarter, total_time, total_length_steps) ==
    CHOOSE r \in rows :
        /\ r.qpm = qpm
        /\ r.steps_per_quarter = steps_per_quarter
        /\ r.total_time = total_time
        /\ r.total_length_steps = total_length_steps

\* str(generator.__class__).split(".")[2]
GeneratorName == "melody_rnn"

\* "%s_%s_%s.<ext>" % (generator_name, generator_id, date_and_time) in "output"
OutputPath(generator_id, date_and_time, ext) ==
    [dir |-> "output", name |-> GeneratorName, id |-> generator_id,
     time |-> date_and_time, ext |-> ext]

(***************************************************************************)
(* The state.                                                              *)
(***************************************************************************)
VARIABLES
    pc,           \* where the current call of generate() stands
    args,         \* its arguments
    generator,    \* the generator built from the bundle: its attribute
    primer_sequence,  \* the primer: its tempos and its total_time
    local,        \* the local variables of generate()
    requests,     \* the generator_options of each generator.generate() call
    steps,        \* the steps the current call has taken, in order
    outcome,      \* how the last call ended
    files,        \* the paths written in the output directory
    returned,     \* the paths written by each call that returned, in order
    now,          \* the last second read from the wall clock
    invocations,  \* the calls of generate() started so far
    windows       \* the rows of lines 142-181, for every input

vars == <<pc, args, generator, primer_sequence, local, requests, steps,
          outcome, files, returned, now, invocations, windows>>

NoArgs == [generator_id |-> "", has_primer |-> FALSE, qpm |-> 0,
           total_length_steps |-> 0]

NoLocal ==
    [qpm |-> 0, seconds_per_step |-> FZero,
     primer_sequence_length_steps |-> 0, primer_sequence_length_time |-> FZero,
     primer_end_adjust |-> FZero, primer_start_time |-> FZero,
     primer_end_time |-> FZero, generation_length_steps |-> 0,
     generation_length_time |-> FZero, generation_start_time |-> FZero,
     generation_end_time |-> FZero, midi_path |-> <<>>, plot_path |-> <<>>]

NoOutcome == [kind |-> "none", message |-> LengthMessage(0, 0)]

Init ==
    /\ pc = "idle"
    /\ args = NoArgs
    /\ generator = NoAttr
    /\ primer_sequence = EmptySequence
    /\ local = NoLocal
    /\ requests = <<>>
    /\ steps = <<>>
    /\ outcome = NoOutcome
    /\ files = {}
    /\ returned = <<>>
    /\ now = 0
    /\ invocations = 0
    /\ windows = WindowsOf(WindowInputs)

\* raise: the call ends here, nothing after it runs.
Raise(kind, message) ==
    /\ pc' = "idle"
    /\ outcome' = [kind |-> kind, message |-> message]

(***************************************************************************)
(* generate(bundle_name, sequence_generator, generator_id, primer_filename,*)
(* qpm, total_length_steps, ...) is called.                                *)
(***************************************************************************)
Call ==
    /\ pc = "idle"
    /\ invocations < MaxInvocations
    /\ \E id \in GeneratorIds, has_primer \in BOOLEAN, qpm \in QpmArgs,
          total \in TotalLengthSteps :
           args' = [generator_id |-> id, has_primer |-> has_primer,
                    qpm |-> qpm, total_length_steps |-> total]
    /\ pc' = "setup"
    /\ invocations' = invocations + 1
    /\ local' = NoLocal
    /\ requests' = <<>>
    /\ steps' = <<>>
    /\ outcome' = NoOutcome
    /\ generator' = NoAttr
    /\ primer_sequence' = EmptySequence
    /\ UNCHANGED <<files, returned, now,
                   windows>>

\* The bundle is downloaded and read, the generator is built and
\* initialized, the primer is read from its file or is the empty sequence.
SetupOk ==
    /\ pc = "setup"
    /\ \E attr \in StepsPerQuarterAttrs : generator' = attr
    /\ \E p \in (IF args.has_primer THEN PrimerFiles ELSE {EmptySequence}) :
           primer_sequence' = p
    /\ pc' = "tempo"
    /\ steps' = Append(steps, "setup")
    /\ UNCHANGED <<args, local, requests, outcome, files, returned, now,
                   invocations, windows>>

\* The bundle, the generator or the primer file cannot be had.
SetupFails ==
    /\ pc = "setup"
    /\ Raise("SetupError", LengthMessage(0, 0))
    /\ steps' = Append(steps, "setup")
    /\ UNCHANGED <<args, generator, primer_sequence, local, requests, files,
                   returned, now, invocations, windows>>

\* The tempo check and the qpm that is used.
TempoOk ==
    /\ pc = "tempo"
    /\ Len(primer_sequence.tempos) <= 1
    /\ local' = [local EXCEPT !.qpm = ResolveQpm(primer_sequence, args.qpm)]
    /\ pc' = "primer_window"
    /\ steps' = Append(steps, "tempo")
    /\ UNCHANGED <<args, generator, primer_sequence, requests, outcome, files,
                   returned, now, invocations, windows>>

TempoFails ==
    /\ pc = "tempo"
    /\ Len(primer_sequence.tempos) > 1
    /\ Raise("MultipleTempo", LengthMessage(0, 0))
    /\ steps' = Append(steps, "tempo")
    /\ UNCHANGED <<args, generator, primer_sequence, local, requests, files,
                   returned, now, invocations, windows>>

\* The row of the current call.
Window ==
    WindowOf(windows, local.qpm, StepsPerQuarter(generator),
             primer_sequence.total_time, args.total_length_steps)

\* seconds_per_step, the primer's length in steps and time, its window.
PrimerWindow ==
    /\ pc = "primer_window"
    /\ local' = [local EXCEPT
          !.seconds_per_step = Window.seconds_per_step,
          !.primer_sequence_length_steps =
              Window.primer_sequence_length_steps,
          !.primer_sequence_length_time = Window.primer_sequence_length_time,
          !.primer_end_adjust = Window.primer_end_adjust,
          !.primer_start_time = Window.primer_start_time,
          !.primer_end_time = Window.primer_end_time]
    /\ pc' = "check_length"
    /\ steps' = Append(steps, "primer_window")
    /\ UNCHANGED <<args, generator, primer_sequence, requests, outcome, files,
                   returned, now, invocations, windows>>

\* The length check passes: the generation length in steps and time.
LengthOk ==
    /\ pc = "check_length"
    /\ ~LengthTooSmall(Window.generation_length_steps)
    /\ local' = [local EXCEPT
          !.generation_length_steps = Window.generation_length_steps,
          !.generation_length_time = Window.generation_length_time]
    /\ pc' = "gen_window"
    /\ steps' = Append(steps, "check_length")
    /\ UNCHANGED <<args, generator, primer_sequence, requests, outcome, files,
                   returned, now, invocations, windows>>

LengthFails ==
    /\ pc = "check_length"
    /\ LengthTooSmall(Window.generation_length_steps)
    /\ local' = [local EXCEPT
          !.generation_length_steps = Window.generation_length_steps]
    /\ Raise("InvalidLength",
             LengthMessage(args.total_length_steps,
                           local.primer_sequence_length_steps))
    /\ steps' = Append(steps, "check_length")
    /\ UNCHANGED <<args, generator, primer_sequence, requests, files,
                   returned, now, invocations, windows>>

\* The generation window.
GenWindow ==
    /\ pc = "gen_window"
    /\ local' = [local EXCEPT
          !.generation_start_time = Window.generation_start_time,
          !.generation_end_time = Window.generation_end_time]
    /\ pc' = "generate"
    /\ steps' = Append(steps, "gen_window")
    /\ UNCHANGED <<args, generator, primer_sequence, requests, outcome, files,
                   returned, now, invocations, windows>>

\* generator_options with its one generate section.
GeneratorOptions ==
    [temperature |-> "temperature", beam_size |-> "beam_size",
     branch_factor |-> "branch_factor",
     steps_per_iteration |-> "steps_per_iteration",
     generate_sections |-> <<[start_time |-> local.generation_start_time,
                              end_time |-> local.generation_end_time]>>]

\* generator.generate(primer_sequence, generator_options) returns.
GenerateOk ==
    /\ pc = "generate"
    /\ requests' = Append(requests, GeneratorOptions)
    /\ pc' = "write_midi"
    /\ steps' = Append(steps, "generate")
    /\ UNCHANGED <<args, generator, primer_sequence, local, outcome, files,
                   returned, now, invocations, windows>>

\* Mutant of GenerateFails: a failed generator.generate(...) is tried again.
GenerateRetried ==
    /\ pc = "generate"
    /\ Len(requests) < 2
    /\ requests' = Append(requests, GeneratorOptions)
    /\ steps' = Append(steps, "generate")
    /\ UNCHANGED <<pc, args, generator, primer_sequence, local, outcome, files,
                   returned, now, invocations, windows>>

\* generator.generate(...) raises.
GenerateFails ==
    /\ pc = "generate"
    /\ requests' = Append(requests, GeneratorOptions)
    /\ Raise("GenerateError", LengthMessage(0, 0))
    /\ steps' = Append(steps, "generate")
    /\ UNCHANGED <<args, generator, primer_sequence, local, files,
                   returned, now, invocations, windows>>

\* time.strftime('%Y-%m-%d_%H%M%S'): the second the wall clock shows, which
\* is the one last read or a later one.
Seconds == now .. MaxClock

\* note_sequence_to_midi_file(sequence, midi_path)
WriteMidiOk ==
    /\ pc = "write_midi"
    /\ \E date_and_time \in Seconds :
         LET midi_path == OutputPath(args.generator_id, date_and_time, "mid")
         IN  /\ now' = date_and_time
             /\ local' = [local EXCEPT !.midi_path = <<midi_path>>]
             /\ files' = files \cup {midi_path}
    /\ pc' = "write_plot"
    /\ steps' = Append(steps, "write_midi")
    /\ UNCHANGED <<args, generator, primer_sequence, requests, outcome,
                   returned, invocations, windows>>

WriteMidiFails ==
    /\ pc = "write_midi"
    /\ \E date_and_time \in Seconds : now' = date_and_time
    /\ Raise("MidiWriteError", LengthMessage(0, 0))
    /\ steps' = Append(steps, "write_midi")
    /\ UNCHANGED <<args, generator, primer_sequence, local, requests, files,
                   returned, invocations, windows>>

\* plotter.show(pretty_midi, plot_path) or plotter.save(pretty_midi, plot_path)
WritePlotOk ==
    /\ pc = "write_plot"
    /\ \E date_and_time \in Seconds, show_plot \in BOOLEAN :
         LET plot_path == OutputPath(args.generator_id, date_and_time, "html")
         IN  /\ now' = date_and_time
             /\ local' = [local EXCEPT !.plot_path = <<plot_path>>]
             /\ files' = files \cup {plot_path}
    /\ pc' = "return"
    /\ steps' = Append(steps, "write_plot")
    /\ UNCHANGED <<args, generator, primer_sequence, requests, outcome,
                   returned, invocations, windows>>

WritePlotFails ==
    /\ pc = "write_plot"
    /\ \E date_and_time \in Seconds : now' = date_and_time
    /\ Raise("PlotWriteError", LengthMessage(0, 0))
    /\ steps' = Append(steps, "write_plot")
    /\ UNCHANGED <<args, generator, primer_sequence, local, requests, files,
                   returned, invocations, windows>>

\* return sequence
Return ==
    /\ pc = "return"
    /\ pc' = "idle"
    /\ outcome' = [kind |-> "returned", message |-> LengthMessage(0, 0)]
    /\ returned' = Append(returned, [midi_path |-> local.midi_path[1],
                                     plot_path |-> local.plot_path[1]])
    /\ steps' = Append(steps, "return")
    /\ UNCHANGED <<args, generator, primer_sequence, local, requests, files,
                   now, invocations, windows>>

Next ==
    \/ Call
    \/ SetupOk
    \/ SetupFails
    \/ TempoOk
    \/ TempoFails
    \/ PrimerWindow
    \/ LengthOk
    \/ LengthFails
    \/ GenWindow
    \/ GenerateOk
    \/ GenerateFails
    \/ WriteMidiOk
    \/ WriteMidiFails
    \/ WritePlotOk
    \/ WritePlotFails
    \/ Return

Spec == Init /\ [][Next]_vars

(***************************************************************************)
(* The properties.  Done(step) says the current call has taken the step    *)
(* (to its end or to its failure); Section is the one generate section of  *)
(* the request the generator received.                                     *)
(***************************************************************************)
Range(q) == { q[i] : i \in DOMAIN q }

Done(step) == step \in Range(steps)

StepOrder ==
    <<"setup", "tempo", "primer_window", "check_length", "gen_window",
      "generate", "write_midi", "write_plot", "return">>

FailedStep ==
    [SetupError |-> "setup", MultipleTempo |-> "tempo",
     InvalidLength |-> "check_length", GenerateError |-> "generate",
     MidiWriteError |-> "write_midi", PlotWriteError |-> "write_plot"]

Failed == outcome.kind \in DOMAIN FailedStep

Section == requests[1].generate_sections[1]

EmptyPrimer == primer_sequence.total_time[1] = 0

\* C1: a call whose total_length_steps is at most the primer's length in
\* steps (the equal case included) goes from the length check straight to
\* the invalid-length error, whose message carries the two numbers; the
\* generator is not called and neither file is written in that call.
C1_InvalidLength ==
    (Done("primer_window")
        /\ args.total_length_steps <= local.primer_sequence_length_steps) =>
        /\ pc \in {"check_length", "idle"}
        /\ pc = "idle" =>
              /\ outcome.kind = "InvalidLength"
              /\ outcome.message.total = args.total_length_steps
              /\ outcome.message.primer = local.primer_sequence_length_steps
        /\ requests = <<>>
        /\ ~Done("generate") /\ ~Done("write_midi") /\ ~Done("write_plot")
        /\ local.midi_path = <<>> /\ local.plot_path = <<>>

\* C1 witness: the equal case has ended in the invalid-length error.
C1_Witness ==
    /\ pc = "idle"
    /\ outcome.kind = "InvalidLength"
    /\ args.total_length_steps = local.primer_sequence_length_steps
    /\ args.total_length_steps > 0

\* C2: the steps of a call are taken in the one fixed order, none twice;
\* the generator is called at most once, and exactly once in a call that
\* returns; the MIDI write follows a generator call that returned, the plot
\* write follows a MIDI write that succeeded; a failed step is the last
\* step of its call, which does not return.
C2_LinearOrder ==
    /\ Len(steps) <= Len(StepOrder)
    /\ \A i \in DOMAIN steps : steps[i] = StepOrder[i]
    /\ Len(requests) <= 1
    /\ outcome.kind = "returned" =>
          /\ Len(requests) = 1
          /\ local.midi_path # <<>> /\ local.plot_path # <<>>
    /\ Done("write_midi") =>
          /\ Len(requests) = 1
          /\ outcome.kind # "GenerateError"
    /\ Done("write_plot") =>
          /\ local.midi_path # <<>>
          /\ outcome.kind # "MidiWriteError"
    /\ Failed =>
          /\ pc = "idle"
          /\ steps[Len(steps)] = FailedStep[outcome.kind]

\* C2 witness: a call has returned after every step, the generator called
\* once.
C2_Witness ==
    /\ pc = "idle"
    /\ outcome.kind = "returned"
    /\ steps = StepOrder
    /\ Len(requests) = 1

C4_SectionLength ==
    Len(requests) = 1 =>
        /\ Len(requests[1].generate_sections) = 1
        /\ Section.start_time = local.primer_end_time
        /\ FSub(Section.end_time, Section.start_time) =
              FAdd(FMul(FromInt(args.total_length_steps
                                - local.primer_sequence_length_steps),
                        local.seconds_per_step),
                   local.primer_end_adjust)

\* C5: the section the generator receives ends on the step boundary
\* total_length_steps * seconds_per_step.
C5_EndOnStepBoundary ==
    Len(requests) = 1 =>
        Section.end_time =
            FMul(FromInt(args.total_length_steps), local.seconds_per_step)

\* C6: with an empty primer the primer has 0 steps, no adjustment, ends at
\* 0; the generation starts at 0, has total_length_steps steps and ends at
\* total_length_steps * seconds_per_step; the call never ends in the
\* invalid-length error.
C6_EmptyPrimer ==
    EmptyPrimer =>
        /\ Done("primer_window") =>
              /\ local.primer_sequence_length_steps = 0
              /\ local.primer_end_adjust = FZero
              /\ local.primer_end_time = FZero
        /\ Done("check_length") =>
              /\ local.generation_length_steps = args.total_length_steps
              /\ outcome.kind # "InvalidLength"
        /\ pc = "generate" =>
              /\ local.generation_start_time = FZero
              /\ local.generation_end_time =
                    FMul(FromInt(args.total_length_steps),
                         local.seconds_per_step)
        /\ Len(requests) = 1 =>
              /\ Section.start_time = local.generation_start_time
              /\ Section.end_time = local.generation_end_time

\* C6 witness: the generation window of a call without primer is computed.
C6_Witness ==
    /\ ~args.has_primer
    /\ EmptyPrimer
    /\ pc = "generate"
    /\ local.generation_length_steps = args.total_length_steps
    /\ local.seconds_per_step # FZero

\* C7: for a primer of nonzero length, primer_length_steps is the smallest
\* n with n * seconds_per_step >= primer_total_time, seconds_per_step is
\* 60 / qpm / steps_per_quarter, the primer starts at 0 and ends at
\* primer_length_steps * seconds_per_step - 1e-5; the adjustment is applied
\* if and only if the primer has nonzero length.
C7_PrimerLength ==
    Done("primer_window") =>
        LET n == local.primer_sequence_length_steps
            length == FMul(FromInt(n), local.seconds_per_step)
            primer_total_time == TimeOf(primer_sequence.total_time)
        IN  /\ (local.primer_end_adjust = EndAdjust) <=> ~EmptyPrimer
            /\ local.primer_end_adjust \in {EndAdjust, FZero}
            /\ ~EmptyPrimer =>
                  /\ local.seconds_per_step =
                        SecondsPerStep(local.qpm, StepsPerQuarter(generator))
                  /\ FLeq(primer_total_time, length)
                  /\ FLess(length,
                           FAdd(primer_total_time, local.seconds_per_step))
                  /\ local.primer_start_time = FZero
                  /\ local.primer_end_time = FSub(length, EndAdjust)

\* C8: the files written by the calls that returned all have different
\* paths: no such call has written the MIDI or plot path of an earlier one.
C8_UniqueNames ==
    \A i, j \in DOMAIN returned :
        /\ returned[i].midi_path # returned[j].plot_path
        /\ i # j => /\ returned[i].midi_path # returned[j].midi_path
                    /\ returned[i].plot_path # returned[j].plot_path

\* C9: with a primer file, what the call computes and how it ends do not
\* depend on the qpm argument: they are what the code computes for the same
\* primer and arguments with any other qpm argument.
C9_QpmIgnored ==
    (args.has_primer /\ Done("primer_window")) =>
        \A qpm \in QpmArgs :
            LET other == WindowOf(windows, ResolveQpm(primer_sequence, qpm),
                                  StepsPerQuarter(generator),
                                  primer_sequence.total_time,
                                  args.total_length_steps)
            IN  /\ local.seconds_per_step = other.seconds_per_step
                /\ local.primer_start_time = other.primer_start_time
                /\ local.primer_end_time = other.primer_end_time
                /\ Done("check_length") =>
                      ((outcome.kind = "InvalidLength")
                          <=> LengthTooSmall(other.generation_length_steps))
                /\ Done("gen_window") =>
                      /\ local.generation_start_time =
                            other.generation_start_time
                      /\ local.generation_end_time = other.generation_end_time

\* C10: the windows of the request the generator receives are well formed:
\* at least one step to generate and
\* 0 = primer_start <= primer_end = gen_start < gen_end.
C10_WellFormedWindows ==
    Len(requests) = 1 =>
        /\ local.generation_length_steps >= 1
        /\ local.primer_start_time = FZero
        /\ FLeq(local.primer_start_time, local.primer_end_time)
        /\ local.primer_end_time = Section.start_time
        /\ FLess(Section.start_time, Section.end_time)
=============================================================================
